---- MODULE Spec2Model ----
(***************************************************************************)
(* A model of the chart layout engine of plotters: ChartBuilder            *)
(* (src/src/chart/builder.rs) and ChartContext (src/src/chart/context.rs). *)
(*                                                                         *)
(* Machine integers.  TLC's integers are 32 bits wide, so every u32 and    *)
(* i32 of the program is carried by its two's-complement i32 reading: a    *)
(* u32 whose value is 2^32 - k (k > 0) is carried as -k.  The casts        *)
(* `as i32` and `as u32` are then the identity on the carried value, and   *)
(* the u32 test `v > 0` is `v # 0`.  No sum or difference of the model     *)
(* comes near 2^31, so + and - never wrap.                                 *)
(*                                                                         *)
(* Option<T> is carried as a sequence of length at most one: None is <<>>  *)
(* and Some(v) is <<v>>.                                                   *)
(***************************************************************************)
EXTENDS Integers, Sequences, FiniteSets, TLC

(***************************************************************************)
(* Bounds of the model.                                                    *)
(***************************************************************************)
MaxW == 4

MaxH == 3

MaxSize == 2

MaxMargin == 1

MaxTitleH == 1

None == <<>>

Some(v) == <<v>>

IsSome(o) == o # <<>>

Unwrap(o) == o[1]

\* The root surfaces of the model: small ones, and the 400 x 300 canvas of
\* the wasm demo.
DemoCanvas == [x0 |-> 0, y0 |-> 0, x1 |-> 400, y1 |-> 300]

Surfaces ==
    {[x0 |-> 0, y0 |-> 0, x1 |-> w, y1 |-> h] :
        w \in (MaxW - 1)..MaxW, h \in (MaxH - 1)..MaxH} \cup {DemoCanvas}

\* u32 arguments of the setters: small sizes, and u32::MAX (carried as -1).
U32Inputs(max) == (0..max) \cup {0 - 1}

\* The measured heights of a caption.
TitleHeights == 1..MaxTitleH

CoordSpecs == {"ranged"}

(***************************************************************************)
(* DrawingArea<DB, Shift>: the rectangle [x0, x1) x [y0, y1) of the        *)
(* backend surface.                                                        *)
(***************************************************************************)
area_margin(a, top, bottom, left, right) ==
    [x0 |-> a.x0 + left, y0 |-> a.y0 + top,
     x1 |-> a.x1 - right, y1 |-> a.y1 - bottom]

\* The area below a title band as high as the measured text.
area_titled(a, text_h) == [a EXCEPT !.y0 = a.y0 + text_h]

dim_in_pixel(a) == <<a.x1 - a.x0, a.y1 - a.y0>>

get_pixel_range(a) == <<<<a.x0, a.x1>>, <<a.y0, a.y1>>>>

get_base_pixel(a) == <<a.x0, a.y0>>

Less(a, b) == a < b

\* The grid lines of one axis: the two edges and the breakpoints (given
\* relative to the edge `lo`), in ascending order.
GridLines(lo, hi, breaks) ==
    SortSeq(<<lo, hi>> \o [i \in 1..Len(breaks) |-> breaks[i] + lo], Less)

\* Consecutive grid lines, paired.
Segments(ls) == [i \in 1..(Len(ls) - 1) |-> <<ls[i], ls[i + 1]>>]

\* The sub-areas of the grid, row by row.
split_by_breakpoints(a, xs, ys) ==
    LET xsegs == Segments(GridLines(a.x0, a.x1, xs))
        ysegs == Segments(GridLines(a.y0, a.y1, ys))
        nx == Len(xsegs)
    IN [k \in 1..(nx * Len(ysegs)) |->
          LET xseg == xsegs[((k - 1) % nx) + 1]
              yseg == ysegs[((k - 1) \div nx) + 1]
          IN [x0 |-> xseg[1], y0 |-> yseg[1], x1 |-> xseg[2], y1 |-> yseg[2]]]

(***************************************************************************)
(* ChartBuilder                                                            *)
(***************************************************************************)
\* LabelAreaPosition as usize
Top == 0

Bottom == 1

Left == 2

Right == 3

LabelAreaPosition == {Top, Bottom, Left, Right}

\* ChartBuilder::on
ChartBuilder_on(root) ==
    [label_area_size |-> <<0, 0, 0, 0>>, root_area |-> root,
     title |-> None, margin |-> 0]

\* The orientation table of build_ranged, by label area index 0..3.
BuildOrientation == <<<<0, -1>>, <<0, 1>>, <<-1, 0>>, <<1, 0>>>>

\* Mutant: the sign test of the split point reversed.
split_point_reversed(idx, size) ==
    LET d == BuildOrientation[idx + 1]
    IN IF d[1] + d[2] > 0 THEN size ELSE 0 - size

\* let split_point = if dx + dy < 0 { size } else { -size };
split_point(idx, size) ==
    LET d == BuildOrientation[idx + 1]
    IN IF d[1] + d[2] < 0 THEN size ELSE 0 - size

\* The drawing area build_ranged works on: the root area, inside the margin
\* and below the title.
working_area(b) ==
    LET a0 == b.root_area
        a1 == IF b.margin # 0
              THEN area_margin(a0, b.margin, b.margin, b.margin, b.margin)
              ELSE a0
    IN IF IsSome(b.title) THEN area_titled(a1, Unwrap(b.title)) ELSE a1

\* Mutant: width and height taken in the wrong order.
actual_drawing_area_pos_swapped(b) ==
    LET d == dim_in_pixel(working_area(b))
        start == <<0, d[1], 0, d[2]>>
    IN [i \in 1..4 |-> start[i] + split_point(i - 1, b.label_area_size[i])]

\* actual_drawing_area_pos after the loop over the four label areas.
actual_drawing_area_pos(b) ==
    LET d == dim_in_pixel(working_area(b))
        start == <<0, d[2], 0, d[1]>>
    IN [i \in 1..4 |-> start[i] + split_point(i - 1, b.label_area_size[i])]

\* The nine areas of the split, before the label areas are taken out.
splitted_areas(b) ==
    LET pos == actual_drawing_area_pos(b)
    IN split_by_breakpoints(working_area(b), SubSeq(pos, 3, 4), SubSeq(pos, 1, 2))

\* Where each label area comes from: [1, 7, 3, 5] zipped with 0..4.
LabelSrcIdx == <<1, 7, 3, 5>>

\* Mutant: every edge area is taken, empty or not.
label_areas_unchecked(b) ==
    [dst \in 1..4 |-> Some(splitted_areas(b)[LabelSrcIdx[dst] + 1])]

\* label_areas after the loop that takes the non-empty edge areas.
label_areas(b) ==
    [dst \in 1..4 |->
        LET a == splitted_areas(b)[LabelSrcIdx[dst] + 1]
            d == dim_in_pixel(a)
        IN IF d[2] # 0 /\ d[1] # 0 THEN Some(a) ELSE None]

\* Mutant: the vertical range left in raw order.
raw_pixel_range(a) == get_pixel_range(a)

\* pixel_range.1 = pixel_range.1.end..pixel_range.1.start
inverted_pixel_range(a) ==
    LET r == get_pixel_range(a)
    IN <<r[1], <<r[2][2], r[2][1]>>>>

\* RangedCoord::new(x_spec, y_spec, pixel_range)
RangedCoord_new(x_spec, y_spec, range) ==
    [logic_x |-> x_spec, logic_y |-> y_spec, pixel_range |-> range]

\* The ChartContext build_ranged returns when the title (if any) is drawn.
build_ranged(b, x_spec, y_spec) ==
    LET la == label_areas(b)
        plot == splitted_areas(b)[5]
    IN [x_label_area |-> <<la[1], la[2]>>,
        y_label_area |-> <<la[3], la[4]>>,
        drawing_area |-> [rect |-> plot,
                          coord |-> RangedCoord_new(x_spec, y_spec,
                                                    inverted_pixel_range(plot))],
        series_anno |-> <<>>]

(***************************************************************************)
(* The state.                                                              *)
(***************************************************************************)
VARIABLES
    builder,     \* the ChartBuilder
    pc,          \* "config": the builder is being configured; "built"; "failed"; "dual"
    chart,       \* Option<ChartContext>
    working,     \* Option: the drawing area the last build_ranged split
    splitted,    \* the nine areas of that split (empty before)
    secondary,   \* Option: the coordinate spec set_secondary_coord made
    result,      \* the result of the last fallible operation
    drawn,       \* the elements drawn on the plotting area, in order
    handle,      \* Option: the index of the SeriesAnno the live handle borrows
    call,        \* Option: the last draw_series call, [series, fails]
    history,     \* for each draw_series call made so far, whether it returned Ok
    mesh_in,     \* Option: the arguments of the draw_mesh call
    mesh_ops,    \* what draw_mesh drew on the backend, in order
    mesh_labels  \* <<x_labels, y_labels>> as draw_mesh_lines collected them

buildVars == <<builder, working, splitted, secondary>>

seriesVars == <<drawn, handle, call, history>>

meshVars == <<mesh_in, mesh_ops, mesh_labels>>

vars == <<builder, pc, chart, working, splitted, secondary, result,
          drawn, handle, call, history, mesh_in, mesh_ops, mesh_labels>>

Ok(v) == [ok |-> TRUE, val |-> v]

Err(e) == [ok |-> FALSE, val |-> e]

Init ==
    /\ builder \in {ChartBuilder_on(root) : root \in Surfaces}
    /\ pc = "config"
    /\ chart = None
    /\ working = None
    /\ splitted = <<>>
    /\ secondary = None
    /\ result = Ok("none")
    /\ drawn = <<>>
    /\ handle = None
    /\ call = None
    /\ history = <<>>
    /\ mesh_in = None
    /\ mesh_ops = <<>>
    /\ mesh_labels = <<<<>>, <<>>>>

Configure(b) ==
    /\ pc = "config"
    /\ builder' = b
    /\ UNCHANGED <<pc, chart, working, splitted, secondary, result, seriesVars, meshVars>>

margin ==
    \E size \in U32Inputs(MaxMargin) :
        Configure([builder EXCEPT !.margin = size])

x_label_area_size ==
    \E size \in U32Inputs(MaxSize) :
        Configure([builder EXCEPT !.label_area_size[2] = size])

y_label_area_size ==
    \E size \in U32Inputs(MaxSize) :
        Configure([builder EXCEPT !.label_area_size[3] = size])

top_x_label_area_size ==
    \E size \in U32Inputs(MaxSize) :
        Configure([builder EXCEPT !.label_area_size[1] = size])

right_y_label_area_size ==
    \E size \in U32Inputs(MaxSize) :
        Configure([builder EXCEPT !.label_area_size[4] = size])

set_label_area_size ==
    \E pos \in LabelAreaPosition, size \in U32Inputs(MaxSize) :
        Configure([builder EXCEPT !.label_area_size[pos + 1] = size])

\* The caption is carried by the measured height of its text.
caption ==
    \E text_h \in TitleHeights :
        Configure([builder EXCEPT !.title = Some(text_h)])

\* build_ranged: `titled` draws the caption and may fail; everything else is
\* pure geometry.
BuildRanged ==
    /\ pc = "config"
    /\ \E x_spec \in CoordSpecs, y_spec \in CoordSpecs, title_ok \in BOOLEAN :
        /\ (~title_ok) => IsSome(builder.title)
        /\ IF title_ok
           THEN /\ chart' = Some(build_ranged(builder, x_spec, y_spec))
                /\ working' = Some(working_area(builder))
                /\ splitted' = splitted_areas(builder)
                /\ result' = Ok("chart")
                /\ pc' = "built"
           ELSE /\ result' = Err("backend")
                /\ pc' = "failed"
                /\ UNCHANGED <<chart, working, splitted>>
    /\ UNCHANGED <<builder, secondary, seriesVars, meshVars>>

\* The chart of the wasm demo: ChartBuilder::on(&root).margin(20)
\* .x_label_area_size(10).y_label_area_size(10).build_ranged(..) on its canvas.
DemoBuilder ==
    [ChartBuilder_on(DemoCanvas) EXCEPT
        !.margin = 20, !.label_area_size[2] = 10, !.label_area_size[3] = 10]

draw_mandelbrot_impl ==
    /\ pc = "config"
    /\ builder = ChartBuilder_on(DemoCanvas)
    /\ builder' = DemoBuilder
    /\ chart' = Some(build_ranged(DemoBuilder, "ranged", "ranged"))
    /\ working' = Some(working_area(DemoBuilder))
    /\ splitted' = splitted_areas(DemoBuilder)
    /\ result' = Ok("chart")
    /\ pc' = "built"
    /\ UNCHANGED <<secondary, seriesVars, meshVars>>

\* let mut pixel_range = self.drawing_area.get_pixel_range();
\* pixel_range.1 = pixel_range.1.end..pixel_range.1.start;
secondary_pixel_range(a) ==
    LET r == get_pixel_range(a)
    IN <<r[1], <<r[2][2], r[2][1]>>>>

\* set_secondary_coord
set_secondary_coord ==
    /\ pc = "built"
    /\ \E x_coord \in CoordSpecs, y_coord \in CoordSpecs :
        secondary' = Some(RangedCoord_new(x_coord, y_coord,
                            secondary_pixel_range(Unwrap(chart).drawing_area.rect)))
    /\ pc' = "dual"
    /\ UNCHANGED <<builder, chart, working, splitted, result, seriesVars, meshVars>>

Next ==
    \/ margin
    \/ x_label_area_size
    \/ y_label_area_size
    \/ top_x_label_area_size
    \/ right_y_label_area_size
    \/ set_label_area_size
    \/ caption
    \/ BuildRanged
    \/ draw_mandelbrot_impl
    \/ set_secondary_coord

Spec == Init /\ [][Next]_vars

(***************************************************************************)
(* ChartContext: series drawing and the series annotations.                *)
(***************************************************************************)
MaxCalls == 2

MaxSeriesLen == 2

Elements == {"circle", "cross"}

Labels == {"sin", "cos"}

LegendFuncs == {"legend_glyph"}

\* The series a caller may pass: every sequence of at most MaxSeriesLen elements.
SeriesInputs == UNION {[1..n -> Elements] : n \in 0..MaxSeriesLen}

Min(S) == CHOOSE k \in S : \A j \in S : k <= j

\* SeriesAnno::new
SeriesAnno_new == [label |-> None, draw_func |-> None]

\* Mutant: the loop goes on after a failed draw.
RECURSIVE draw_series_impl_keeps_going(_, _, _, _)
draw_series_impl_keeps_going(log, series, k, fails) ==
    IF k > Len(series)
    THEN [drawn |-> log,
          res |-> IF fails = {} THEN Ok("unit")
                  ELSE Err(<<"draw", Min(fails), series[Min(fails)]>>)]
    ELSE IF k \in fails
         THEN draw_series_impl_keeps_going(log, series, k + 1, fails)
         ELSE draw_series_impl_keeps_going(Append(log, series[k]), series, k + 1, fails)

\* draw_series_impl from its k-th element on: the elements are drawn in
\* order; `fails` are the draws the backend refuses, and `?` returns the
\* error of the first of them.
RECURSIVE draw_series_impl(_, _, _, _)
draw_series_impl(log, series, k, fails) ==
    IF k > Len(series)
    THEN [drawn |-> log, res |-> Ok("unit")]
    ELSE IF k \in fails
         THEN [drawn |-> log, res |-> Err(<<"draw", k, series[k]>>)]
         ELSE draw_series_impl(Append(log, series[k]), series, k + 1, fails)

\* Mutant: the new annotation is put in front.
alloc_series_anno_front(annos) ==
    [series_anno |-> <<SeriesAnno_new>> \o annos, idx |-> 0]

\* alloc_series_anno: the registry after the push, and the index handed out.
alloc_series_anno(annos) ==
    [series_anno |-> Append(annos, SeriesAnno_new), idx |-> Len(annos)]

\* draw_series
draw_series ==
    /\ pc = "built"
    /\ Len(history) < MaxCalls
    /\ \E series \in SeriesInputs :
       \E fails \in SUBSET (1..Len(series)) :
        LET r == draw_series_impl(drawn, series, 1, fails)
            a == alloc_series_anno(Unwrap(chart).series_anno)
        IN /\ drawn' = r.drawn
           /\ call' = Some([series |-> series, fails |-> fails])
           /\ history' = Append(history, r.res.ok)
           /\ IF r.res.ok
              THEN /\ chart' = Some([Unwrap(chart) EXCEPT !.series_anno = a.series_anno])
                   /\ handle' = Some(a.idx)
                   /\ result' = Ok(<<"anno", a.idx>>)
              ELSE /\ result' = r.res
                   /\ handle' = None
                   /\ UNCHANGED chart
    /\ UNCHANGED <<pc, buildVars, meshVars>>

\* SeriesAnno::label, through the handle the last draw_series returned.
label ==
    /\ pc = "built"
    /\ IsSome(handle)
    /\ \E l \in Labels :
        chart' = Some([Unwrap(chart) EXCEPT
                         !.series_anno[Unwrap(handle) + 1].label = Some(l)])
    /\ UNCHANGED <<pc, buildVars, result, drawn, handle, call, history, meshVars>>

\* SeriesAnno::legend, through the handle the last draw_series returned.
legend ==
    /\ pc = "built"
    /\ IsSome(handle)
    /\ \E func \in LegendFuncs :
        chart' = Some([Unwrap(chart) EXCEPT
                         !.series_anno[Unwrap(handle) + 1].draw_func = Some(func)])
    /\ UNCHANGED <<pc, buildVars, result, drawn, handle, call, history, meshVars>>

\* The chart context of the demo, as build_ranged returns it.
SeriesInit ==
    /\ builder = DemoBuilder
    /\ pc = "built"
    /\ chart = Some(build_ranged(builder, "ranged", "ranged"))
    /\ working = Some(working_area(builder))
    /\ splitted = splitted_areas(builder)
    /\ secondary = None
    /\ result = Ok("chart")
    /\ drawn = <<>>
    /\ handle = None
    /\ call = None
    /\ history = <<>>
    /\ mesh_in = None
    /\ mesh_ops = <<>>
    /\ mesh_labels = <<<<>>, <<>>>>

SeriesNext == draw_series \/ label \/ legend

SeriesSpec == SeriesInit /\ [][SeriesNext]_vars


(***************************************************************************)
(* ChartContext: mesh, axes and labels.                                    *)
(*                                                                         *)
(* A text is carried by what the font says of it: its box (w, h) and       *)
(* whether measuring it fails.  The backend is carried by the operations   *)
(* it has drawn, the number of draws asked of it, and the number of the    *)
(* draw it refuses (0: none).  `checks` is the build's overflow-checks     *)
(* setting: u32 subtraction panics under it and wraps without it.          *)
(***************************************************************************)
MaxFail == 4

MeshW == 9

MeshH == 8

\* TODO of the source: let knob_size = 5;
knob_size == 5

\* let label_dist = if orientation.1 > 0 { 0 } else { 10 };
label_dist(orientation) == IF orientation[2] > 0 THEN 0 ELSE 10

Backend0(fail_at, checks) ==
    [ops |-> <<>>, n |-> 0, fail_at |-> fail_at, checks |-> checks, err |-> None]

Failed(b) == IsSome(b.err)

Op(kind, area, ori, pts, text, tick, anchor, size) ==
    [kind |-> kind, area |-> area, ori |-> ori, pts |-> pts,
     text |-> text, tick |-> tick, anchor |-> anchor, size |-> size]

\* A draw followed by `?`: once a draw has failed nothing more is done.
backend_draw(b, op) ==
    IF Failed(b) THEN b
    ELSE IF b.n + 1 = b.fail_at
         THEN [b EXCEPT !.n = @ + 1, !.err = Some(<<"backend", b.n + 1, op.kind>>)]
         ELSE [b EXCEPT !.n = @ + 1, !.ops = Append(@, op)]

panic(b, msg) == IF Failed(b) THEN b ELSE [b EXCEPT !.err = Some(<<"panic", msg>>)]

\* font.box_size(text) under a transform: the box turns with the text.
box_size(text, transform) ==
    IF text.err THEN Err("font")
    ELSE IF transform \in {"Rotate90", "Rotate270"}
         THEN Ok(<<text.h, text.w>>)
         ELSE Ok(<<text.w, text.h>>)

unwrap_or(res, default) == IF res.ok THEN res.val ELSE default

get_x_axis_pixel_range(ctx) == ctx.drawing_area.coord.pixel_range[1]

get_y_axis_pixel_range(ctx) == ctx.drawing_area.coord.pixel_range[2]

MinOf(a, b) == IF a < b THEN a ELSE b

MaxOf(a, b) == IF a < b THEN b ELSE a

RECURSIVE MaxWidth(_)
MaxWidth(labels) ==
    IF labels = <<>> THEN 0
    ELSE MaxOf(unwrap_or(box_size(Head(labels)[2], "None"), <<0, 0>>)[1],
               MaxWidth(Tail(labels)))

\* u32 `a - b`: wraps (carried as the negative difference) or panics.
U32Sub(a, b) == a - b

U32SubOverflows(a, b) == a >= 0 /\ b >= 0 /\ a < b

\* u32 `v / 2` of a carried value: 2^31 + floor(v / 2) when v is carried negative.
U32Half(v) == IF v >= 0 THEN v \div 2 ELSE 2147483647 + (1 + (v \div 2))

\* Mutant: the label of a mesh line is collected only if the line is drawn.
RECURSIVE draw_mesh_lines_labels_of_drawn(_, _, _, _, _, _, _)
draw_mesh_lines_labels_of_drawn(b, ctx, lines, k, mesh, x_labels, y_labels) ==
    IF k > Len(lines) \/ Failed(b)
    THEN [b |-> b, x_labels |-> x_labels, y_labels |-> y_labels]
    ELSE LET l == lines[k]
             isx == l.axis = "X"
             r == ctx.drawing_area.rect
             draw == IF isx THEN mesh[1] ELSE mesh[2]
             xl == IF isx /\ draw /\ IsSome(l.label)
                   THEN Append(x_labels, <<l.pos, Unwrap(l.label)>>)
                   ELSE x_labels
             yl == IF ~isx /\ draw /\ IsSome(l.label)
                   THEN Append(y_labels, <<l.pos, Unwrap(l.label)>>)
                   ELSE y_labels
             pts == IF isx THEN <<<<l.pos, r.y0>>, <<l.pos, r.y1>>>>
                    ELSE <<<<r.x0, l.pos>>, <<r.x1, l.pos>>>>
             op == Op(IF isx THEN "x_mesh_line" ELSE "y_mesh_line", "plot",
                      <<0, 0>>, pts, None, Some(l.pos), <<0, 0>>, <<0, 0>>)
         IN draw_mesh_lines_labels_of_drawn(IF draw THEN backend_draw(b, op) ELSE b,
                                            ctx, lines, k + 1, mesh, xl, yl)

\* The mesh lines draw_mesh_lines sees from its k-th on: the formatter's
\* label is collected whatever the toggle says, the line is drawn if its
\* axis's toggle is on.
RECURSIVE draw_mesh_lines(_, _, _, _, _, _, _)
draw_mesh_lines(b, ctx, lines, k, mesh, x_labels, y_labels) ==
    IF k > Len(lines) \/ Failed(b)
    THEN [b |-> b, x_labels |-> x_labels, y_labels |-> y_labels]
    ELSE LET l == lines[k]
             isx == l.axis = "X"
             r == ctx.drawing_area.rect
             xl == IF isx /\ IsSome(l.label)
                   THEN Append(x_labels, <<l.pos, Unwrap(l.label)>>)
                   ELSE x_labels
             yl == IF ~isx /\ IsSome(l.label)
                   THEN Append(y_labels, <<l.pos, Unwrap(l.label)>>)
                   ELSE y_labels
             draw == IF isx THEN mesh[1] ELSE mesh[2]
             pts == IF isx THEN <<<<l.pos, r.y0>>, <<l.pos, r.y1>>>>
                    ELSE <<<<r.x0, l.pos>>, <<r.x1, l.pos>>>>
             op == Op(IF isx THEN "x_mesh_line" ELSE "y_mesh_line", "plot",
                      <<0, 0>>, pts, None, Some(l.pos), <<0, 0>>, <<0, 0>>)
         IN draw_mesh_lines(IF draw THEN backend_draw(b, op) ELSE b,
                            ctx, lines, k + 1, mesh, xl, yl)

\* axis_range of draw_axis_and_labels, relative to the plotting area's base pixel.
axis_range(ctx, orientation) ==
    LET base == get_base_pixel(ctx.drawing_area.rect)
        r == IF orientation[1] = 0 THEN get_x_axis_pixel_range(ctx)
             ELSE get_y_axis_pixel_range(ctx)
        off == IF orientation[1] = 0 THEN base[1] ELSE base[2]
    IN <<r[1] - off, r[2] - off>>

\* The two ends of the axis line.
axis_line(orientation, tw, th, range) ==
    LET x0 == IF orientation[1] > 0 THEN 0 ELSE tw
        y0 == IF orientation[2] > 0 THEN 0 ELSE th
        x1 == IF orientation[1] >= 0 THEN 0 ELSE tw
        y1 == IF orientation[2] >= 0 THEN 0 ELSE th
    IN IF orientation[1] = 0
       THEN <<<<range[1], y0>>, <<range[2], y1>>>>
       ELSE <<<<x0, range[1]>>, <<x1, range[2]>>>>

right_most(labels, orientation) ==
    IF orientation[1] > 0 /\ orientation[2] = 0
    THEN MaxWidth(labels) + label_dist(orientation)
    ELSE 0

\* Mutant: no tick is clipped.
clipped_never(rp, range) == FALSE

\* if rp < axis_range.start.min(axis_range.end) || axis_range.end.max(axis_range.start) < rp
clipped(rp, range) ==
    rp < MinOf(range[1], range[2]) \/ MaxOf(range[2], range[1]) < rp

ValidOrientation(o) ==
    (o[1] # 0 /\ o[2] = 0) \/ (o[1] = 0 /\ o[2] # 0)

\* (cx, cy) of a label, for a valid orientation.
label_anchor(o, p, size, tw, th, base, rm) ==
    CASE o[1] > 0 /\ o[2] = 0 -> <<rm - size[1], p - base[2]>>
      [] o[1] < 0 /\ o[2] = 0 -> <<tw - label_dist(o) - size[1], p - base[2]>>
      [] o[1] = 0 /\ o[2] > 0 -> <<p - base[1], label_dist(o) + size[2]>>
      [] o[1] = 0 /\ o[2] < 0 -> <<p - base[1], th - label_dist(o) - size[2]>>

should_draw(o, c, size, label_offset, tw, th) ==
    IF o[1] = 0
    THEN c[1] >= 0 /\ c[1] + label_offset + size[1] \div 2 <= tw
    ELSE c[2] >= 0 /\ c[2] + label_offset + size[2] \div 2 <= th

text_pos(o, c, size, label_offset) ==
    IF o[1] = 0
    THEN <<c[1] - size[1] \div 2 + label_offset, c[2]>>
    ELSE <<c[1], c[2] - size[2] \div 2 + label_offset>>

\* Mutant: the knob is drawn from the band's other edge.
knob_line_other_edge(o, p, tw, th, base) ==
    CASE o[1] > 0 /\ o[2] = 0 -> <<<<tw - knob_size, p - base[2]>>, <<tw, p - base[2]>>>>
      [] o[1] < 0 /\ o[2] = 0 -> <<<<0, p - base[2]>>, <<knob_size, p - base[2]>>>>
      [] o[1] = 0 /\ o[2] > 0 -> <<<<p - base[1], th - knob_size>>, <<p - base[1], th>>>>
      [] o[1] = 0 /\ o[2] < 0 -> <<<<p - base[1], 0>>, <<p - base[1], knob_size>>>>

\* The two ends of the knob of the tick at p, for a valid orientation.
knob_line(o, p, tw, th, base) ==
    CASE o[1] > 0 /\ o[2] = 0 -> <<<<0, p - base[2]>>, <<knob_size, p - base[2]>>>>
      [] o[1] < 0 /\ o[2] = 0 -> <<<<tw - knob_size, p - base[2]>>, <<tw, p - base[2]>>>>
      [] o[1] = 0 /\ o[2] > 0 -> <<<<p - base[1], 0>>, <<p - base[1], knob_size>>>>
      [] o[1] = 0 /\ o[2] < 0 -> <<<<p - base[1], th - knob_size>>, <<p - base[1], th>>>>

\* The loop of draw_axis_and_labels over the labels, from the k-th on.
RECURSIVE draw_labels(_, _, _, _, _, _, _, _, _)
draw_labels(b, ctx, name, area, axis_style, labels, k, label_offset, o) ==
    IF k > Len(labels) \/ Failed(b) THEN b
    ELSE
      LET p == labels[k][1]
          t == labels[k][2]
          base == get_base_pixel(ctx.drawing_area.rect)
          d == dim_in_pixel(area)
          range == axis_range(ctx, o)
          rp == IF o[1] = 0 THEN p - base[1] ELSE p - base[2]
          size == unwrap_or(box_size(t, "None"), <<0, 0>>)
          c == label_anchor(o, p, size, d[1], d[2], base, right_most(labels, o))
          b1 == backend_draw(b, Op("label", name, o,
                    <<text_pos(o, c, size, label_offset)>>, Some(t), Some(p), c, size))
          b2 == IF axis_style
                THEN backend_draw(b1, Op("knob", name, o,
                         knob_line(o, p, d[1], d[2], base), None, Some(p), c, size))
                ELSE b1
          next == IF clipped(rp, range) THEN b
                  ELSE IF ~ValidOrientation(o)
                       THEN panic(b, "Bug: Invlid orientation specification")
                       ELSE IF should_draw(o, c, size, label_offset, d[1], d[2])
                            THEN b2
                            ELSE b
      IN draw_labels(next, ctx, name, area, axis_style, labels, k + 1, label_offset, o)

\* The transform of the axis description's style.
desc_transform(o) ==
    IF o[1] = 0 THEN "None" ELSE IF o[1] = -1 THEN "Rotate270" ELSE "Rotate90"

\* The u32 pair (x0, y0) of the axis description, for a valid orientation:
\* the subtractions it evaluates, and its value as (i32, i32).
desc_subtractions(o, tw, th, size) ==
    CASE o[1] > 0 /\ o[2] = 0 -> {<<tw, size[1]>>, <<th, size[2]>>}
      [] o[1] < 0 /\ o[2] = 0 -> {<<th, size[2]>>}
      [] o[1] = 0 /\ o[2] > 0 -> {<<tw, size[1]>>, <<th, size[2]>>}
      [] o[1] = 0 /\ o[2] < 0 -> {<<tw, size[1]>>}

desc_pos(o, tw, th, size) ==
    CASE o[1] > 0 /\ o[2] = 0 ->
            <<U32Sub(tw, size[1]), U32Half(U32Sub(th, size[2]))>>
      [] o[1] < 0 /\ o[2] = 0 -> <<0, U32Half(U32Sub(th, size[2]))>>
      [] o[1] = 0 /\ o[2] > 0 ->
            <<U32Half(U32Sub(tw, size[1])), U32Sub(th, size[2])>>
      [] o[1] = 0 /\ o[2] < 0 -> <<U32Half(U32Sub(tw, size[1])), 0>>

\* The axis description of draw_axis_and_labels.
draw_axis_desc(b, name, area, o, axis_desc) ==
    IF Failed(b) \/ axis_desc = None THEN b
    ELSE
      LET text == Unwrap(axis_desc)
          d == dim_in_pixel(area)
          size == unwrap_or(box_size(text, desc_transform(o)), <<0, 0>>)
      IN IF ~ValidOrientation(o)
         THEN panic(b, "Bug: Invlid orientation specification")
         ELSE IF b.checks /\ \E s \in desc_subtractions(o, d[1], d[2], size) :
                                 U32SubOverflows(s[1], s[2])
              THEN panic(b, "attempt to subtract with overflow")
              ELSE backend_draw(b, Op("axis_desc", name, o,
                       <<desc_pos(o, d[1], d[2], size)>>, Some(text), None,
                       <<0, 0>>, size))

\* draw_axis_and_labels on the label area `area` (an Option), called `name`.
draw_axis_and_labels(b, ctx, name, area, axis_style, labels, label_offset, o, axis_desc) ==
    IF Failed(b) \/ area = None THEN b
    ELSE
      LET a == Unwrap(area)
          d == dim_in_pixel(a)
          b1 == IF axis_style
                THEN backend_draw(b, Op("axis_line", name, o,
                         axis_line(o, d[1], d[2], axis_range(ctx, o)),
                         None, None, <<0, 0>>, <<0, 0>>))
                ELSE b
          b2 == draw_labels(b1, ctx, name, a, axis_style, labels, 1, label_offset, o)
      IN draw_axis_desc(b2, name, a, o, axis_desc)

\* Mutant: the X orientations of the two slots exchanged.
x_orientation_exchanged(idx) == <<0, 1 - idx * 2>>

\* The orientation draw_mesh passes for the label areas of index idx.
x_orientation(idx) == <<0, -1 + idx * 2>>

y_orientation(idx) == <<-1 + idx * 2, 0>>

\* The two calls of draw_mesh's loop for idx.
draw_mesh_areas(b, ctx, in, labels, idx) ==
    LET b1 == draw_axis_and_labels(b, ctx, <<"x", idx>>, ctx.x_label_area[idx + 1],
                  in.x_axis, labels.x_labels, in.x_label_offset,
                  x_orientation(idx), in.x_desc)
    IN draw_axis_and_labels(b1, ctx, <<"y", idx>>, ctx.y_label_area[idx + 1],
                  in.y_axis, labels.y_labels, in.y_label_offset,
                  y_orientation(idx), in.y_desc)

\* draw_mesh: the backend after it, and the labels draw_mesh_lines collected.
draw_mesh_run(ctx, in) ==
    LET m == draw_mesh_lines(Backend0(in.fail_at, in.checks), ctx, in.lines, 1,
                             <<in.x_mesh, in.y_mesh>>, <<>>, <<>>)
        b0 == draw_mesh_areas(m.b, ctx, in, m, 0)
    IN [b |-> draw_mesh_areas(b0, ctx, in, m, 1),
        x_labels |-> m.x_labels, y_labels |-> m.y_labels]


\* The texts of the model: a label, a text the font cannot measure, and a
\* text larger than the label areas.
TextOk == [w |-> 2, h |-> 1, err |-> FALSE]

TextBad == [w |-> 2, h |-> 1, err |-> TRUE]

TextWide == [w |-> 6, h |-> 3, err |-> FALSE]

\* What the formatter returns for a mesh line.
TickLabels == {None, Some(TextOk), Some(TextBad)}

\* The pixel positions of the ticks of the model: one pixel outside the
\* plotting area on either side, on its two bounds, and inside.
XPos(ctx) ==
    LET r == ctx.drawing_area.rect
    IN <<r.x0 - 1, r.x0, r.x0 + 1, r.x1, r.x1 + 1>>

YPos(ctx) ==
    LET r == ctx.drawing_area.rect
    IN <<r.y0 - 1, r.y0, r.y0 + 1, r.y1, r.y1 + 1>>

\* The mesh lines the coordinate spec generates: the X lines, then the Y lines.
LinesInputs(ctx) ==
    {<<>>} \cup
    UNION {{<<[axis |-> "X", pos |-> XPos(ctx)[i], label |-> l]>>,
            <<[axis |-> "Y", pos |-> YPos(ctx)[i], label |-> l]>>,
            <<[axis |-> "X", pos |-> XPos(ctx)[i], label |-> l],
              [axis |-> "Y", pos |-> YPos(ctx)[6 - i], label |-> l]>>} :
           i \in 1..5, l \in TickLabels}

\* <<x_label_offset, y_label_offset>>
OffsetInputs == {<<0, 0>>, <<1, -1>>, <<-1, 1>>}

\* <<x_desc, y_desc>>
DescInputs ==
    {<<None, None>>, <<Some(TextOk), Some(TextWide)>>, <<Some(TextWide), Some(TextBad)>>}

\* draw_mesh
draw_mesh ==
    /\ pc = "built"
    /\ \E lines \in LinesInputs(Unwrap(chart)), x_mesh \in BOOLEAN, y_mesh \in BOOLEAN,
          x_axis \in BOOLEAN, y_axis \in BOOLEAN, off \in OffsetInputs,
          desc \in DescInputs, fail_at \in 0..MaxFail, checks \in BOOLEAN :
        LET in == [lines |-> lines, x_mesh |-> x_mesh, y_mesh |-> y_mesh,
                   x_label_offset |-> off[1], y_label_offset |-> off[2],
                   x_axis |-> x_axis, y_axis |-> y_axis,
                   x_desc |-> desc[1], y_desc |-> desc[2],
                   fail_at |-> fail_at, checks |-> checks]
            run == draw_mesh_run(Unwrap(chart), in)
        IN /\ mesh_in' = Some(in)
           /\ mesh_ops' = run.b.ops
           /\ mesh_labels' = <<run.x_labels, run.y_labels>>
           /\ result' = IF Failed(run.b) THEN Err(Unwrap(run.b.err)) ELSE Ok("unit")
    /\ pc' = "meshed"
    /\ UNCHANGED <<builder, chart, working, splitted, secondary, seriesVars>>

\* The builders of the charts the mesh is drawn on: all four label areas,
\* and the bottom and left ones only.
MeshBuilders ==
    {[ChartBuilder_on([x0 |-> 0, y0 |-> 0, x1 |-> MeshW, y1 |-> MeshH]) EXCEPT
         !.margin = 1, !.label_area_size = sizes] :
        sizes \in {<<1, 2, 2, 1>>, <<0, 2, 2, 0>>}}

MeshInit ==
    /\ builder \in MeshBuilders
    /\ pc = "built"
    /\ chart = Some(build_ranged(builder, "ranged", "ranged"))
    /\ working = Some(working_area(builder))
    /\ splitted = splitted_areas(builder)
    /\ secondary = None
    /\ result = Ok("chart")
    /\ drawn = <<>>
    /\ handle = None
    /\ call = None
    /\ history = <<>>
    /\ mesh_in = None
    /\ mesh_ops = <<>>
    /\ mesh_labels = <<<<>>, <<>>>>

MeshNext == draw_mesh

MeshSpec == MeshInit /\ [][MeshNext]_vars


(***************************************************************************)
(* Shared vocabulary of the claims.                                        *)
(***************************************************************************)
Built == pc \in {"built", "dual"}

Ctx == Unwrap(chart)

Plot == Ctx.drawing_area.rect

RootW == builder.root_area.x1 - builder.root_area.x0

RootH == builder.root_area.y1 - builder.root_area.y0

SizeOf(pos) == builder.label_area_size[pos + 1]

\* The label slot of an edge: Top -> x_label_area[0], Bottom -> x_label_area[1],
\* Left -> y_label_area[0], Right -> y_label_area[1].
Slot(pos) ==
    CASE pos = Top -> Ctx.x_label_area[1]
      [] pos = Bottom -> Ctx.x_label_area[2]
      [] pos = Left -> Ctx.y_label_area[1]
      [] pos = Right -> Ctx.y_label_area[2]

\* The set of pixels of an area is empty.
Empty(a) == a.x1 <= a.x0 \/ a.y1 <= a.y0

Area(a) == IF Empty(a) THEN 0 ELSE (a.x1 - a.x0) * (a.y1 - a.y0)

Inside(a, w) ==
    Empty(a) \/ (w.x0 <= a.x0 /\ a.x1 <= w.x1 /\ w.y0 <= a.y0 /\ a.y1 <= w.y1)

Disjoint(a, b) ==
    \/ Empty(a) \/ Empty(b)
    \/ a.x1 <= b.x0 \/ b.x1 <= a.x0
    \/ a.y1 <= b.y0 \/ b.y1 <= a.y0

RECURSIVE SumArea(_)
SumArea(as) == IF as = <<>> THEN 0 ELSE Area(Head(as)) + SumArea(Tail(as))

\* The areas `as` lie inside `w`, do not overlap and cover `w`.
Tiles(as, w) ==
    /\ \A i \in 1..Len(as) : Inside(as[i], w)
    /\ \A i, j \in 1..Len(as) : i < j => Disjoint(as[i], as[j])
    /\ SumArea(as) = Area(w)

(***************************************************************************)
(* C1: with no title, margin m and label sizes t, b, l, r such that        *)
(* 2m + l + r < W and 2m + t + b < H, the plotting area is the rectangle   *)
(* W - 2m - l - r wide and H - 2m - t - b high inside the margin and the   *)
(* bands, every edge of size > 0 has its label area, and every label area  *)
(* is the band of the configured size on its edge, as long (or high) as    *)
(* the plotting area.                                                      *)
(***************************************************************************)
C1_Pre ==
    /\ Built
    /\ builder.title = None
    /\ builder.margin >= 0
    /\ \A pos \in LabelAreaPosition : SizeOf(pos) >= 0
    /\ 2 * builder.margin + SizeOf(Left) + SizeOf(Right) < RootW
    /\ 2 * builder.margin + SizeOf(Top) + SizeOf(Bottom) < RootH

C1_Band(pos) ==
    LET m == builder.margin
        r == builder.root_area
        px0 == r.x0 + m + SizeOf(Left)
        px1 == r.x1 - m - SizeOf(Right)
        py0 == r.y0 + m + SizeOf(Top)
        py1 == r.y1 - m - SizeOf(Bottom)
    IN CASE pos = Top -> [x0 |-> px0, y0 |-> r.y0 + m, x1 |-> px1, y1 |-> py0]
         [] pos = Bottom -> [x0 |-> px0, y0 |-> py1, x1 |-> px1, y1 |-> r.y1 - m]
         [] pos = Left -> [x0 |-> r.x0 + m, y0 |-> py0, x1 |-> px0, y1 |-> py1]
         [] pos = Right -> [x0 |-> px1, y0 |-> py0, x1 |-> r.x1 - m, y1 |-> py1]

C1_PlotAndBands ==
    C1_Pre =>
        /\ dim_in_pixel(Plot) =
             <<RootW - 2 * builder.margin - SizeOf(Left) - SizeOf(Right),
               RootH - 2 * builder.margin - SizeOf(Top) - SizeOf(Bottom)>>
        /\ Plot.x0 = builder.root_area.x0 + builder.margin + SizeOf(Left)
        /\ Plot.y0 = builder.root_area.y0 + builder.margin + SizeOf(Top)
        /\ \A pos \in LabelAreaPosition :
            /\ SizeOf(pos) > 0 => IsSome(Slot(pos))
            /\ IsSome(Slot(pos)) => Unwrap(Slot(pos)) = C1_Band(pos)
        /\ (builder = DemoBuilder) => dim_in_pixel(Plot) = <<350, 250>>

\* The chart of the demo is built, and so is a chart with all four bands.
C1_Witness ==
    /\ C1_Pre
    /\ builder = DemoBuilder
    /\ IsSome(Slot(Bottom)) /\ IsSome(Slot(Left))
    /\ dim_in_pixel(Plot) = <<350, 250>>

(***************************************************************************)
(* C2: whenever a caption is set, the margin is ignored: the chart built   *)
(* with caption and margin m is the chart built with caption and margin 0, *)
(* and the area that is split is the root area below the title band.       *)
(***************************************************************************)
C2_MarginIgnoredWhenTitled ==
    (Built /\ IsSome(builder.title)) =>
        /\ Unwrap(working) = area_titled(builder.root_area, Unwrap(builder.title))
        /\ Ctx = build_ranged([builder EXCEPT !.margin = 0],
                              Ctx.drawing_area.coord.logic_x,
                              Ctx.drawing_area.coord.logic_y)

(***************************************************************************)
(* C3 as stated: for every configuration the nine areas of the split lie   *)
(* inside the working area, do not overlap and cover it.                   *)
(***************************************************************************)
C3_TilesForEveryConfiguration ==
    Built => Tiles(splitted, Unwrap(working))

\* The working area is not inside out, and no label size (as u32) is larger
\* than the working area's extent on its axis.
SizesFit ==
    LET d == dim_in_pixel(working_area(builder))
    IN /\ d[1] >= 0 /\ d[2] >= 0
       /\ \A pos \in {Top, Bottom} : 0 <= SizeOf(pos) /\ SizeOf(pos) <= d[2]
       /\ \A pos \in {Left, Right} : 0 <= SizeOf(pos) /\ SizeOf(pos) <= d[1]

(***************************************************************************)
(* C3 amended: when the margin and the title leave a working area of       *)
(* non-negative width and height and no label size exceeds the working     *)
(* area's extent on its axis, the split has nine areas, and they lie       *)
(* inside the working area, do not overlap and cover it.                   *)
(***************************************************************************)
C3_TilesWhenSizesFit ==
    (Built /\ SizesFit) =>
        /\ Len(splitted) = 9
        /\ Tiles(splitted, Unwrap(working))
        /\ Plot = splitted[5]

\* Sizes that fit although top + bottom exceeds the height: the bands cross.
C3_Witness ==
    /\ Built /\ SizesFit
    /\ SizeOf(Top) + SizeOf(Bottom) > dim_in_pixel(Unwrap(working))[2]
    /\ SizeOf(Left) > 0 /\ SizeOf(Right) > 0
    /\ Area(Unwrap(working)) > 0

StrictlyInverted(range, a) ==
    /\ range[2] = <<a.y1, a.y0>>
    /\ range[2][1] > range[2][2]
    /\ range[1] = <<a.x0, a.x1>>
    /\ range[1][1] < range[1][2]

C5_VerticalRangeStrictlyInverted ==
    /\ Built => StrictlyInverted(Ctx.drawing_area.coord.pixel_range, Plot)
    /\ IsSome(secondary) => StrictlyInverted(Unwrap(secondary).pixel_range, Plot)

Inverted(range, a) ==
    /\ range[2] = <<a.y1, a.y0>>
    /\ range[2][1] >= range[2][2]
    /\ (range[2][1] = range[2][2]) <=> (a.y1 - a.y0 = 0)
    /\ range[1] = <<a.x0, a.x1>>
    /\ range[1][1] <= range[1][2]
    /\ (range[1][1] = range[1][2]) <=> (a.x1 - a.x0 = 0)

(***************************************************************************)
(* C5 amended: the vertical pixel range of the chart's coordinate spec and *)
(* of every secondary coordinate spec is <<bottom, top>> of the plotting   *)
(* area with start >= end, and the horizontal range is <<left, right>>     *)
(* with start <= end; start and end are equal exactly when the plotting    *)
(* area has height (width) 0, which happens when the label bands use up    *)
(* the working area.                                                       *)
(***************************************************************************)
C5_VerticalRangeInverted ==
    /\ Built => Inverted(Ctx.drawing_area.coord.pixel_range, Plot)
    /\ IsSome(secondary) => Inverted(Unwrap(secondary).pixel_range, Plot)

\* A secondary coordinate spec on a plotting area of positive height.
C5_Witness ==
    /\ pc = "dual" /\ IsSome(secondary)
    /\ Plot.y1 - Plot.y0 > 1 /\ Plot.y0 > 0
    /\ Unwrap(secondary).pixel_range[2] = <<Plot.y1, Plot.y0>>

Annos == Ctx.series_anno

\* A step that is a call of draw_series.
DrawSeriesCalled == Len(history') = Len(history) + 1

(***************************************************************************)
(* C6: when the backend refuses the draw of some element of the series, k  *)
(* being the first such element, draw_series returns the error of that     *)
(* draw, the elements before the k-th are drawn in order after what was    *)
(* drawn before, no element from the k-th on is drawn, and the series      *)
(* annotations are unchanged.                                              *)
(***************************************************************************)
C6_FailFast ==
    [][(DrawSeriesCalled /\ Unwrap(call').fails # {}) =>
         LET c == Unwrap(call')
             k == Min(c.fails)
         IN /\ ~history'[Len(history')]
            /\ result' = Err(<<"draw", k, c.series[k]>>)
            /\ drawn' = drawn \o SubSeq(c.series, 1, k - 1)
            /\ Unwrap(chart').series_anno = Annos]_vars

\* The second element of a series failed after a series was drawn and labelled.
C6_Witness ==
    /\ history = <<TRUE, FALSE>>
    /\ Unwrap(call).fails = {2}
    /\ Len(Unwrap(call).series) = 2
    /\ result = Err(<<"draw", 2, Unwrap(call).series[2]>>)
    /\ Len(Annos) = 1 /\ IsSome(Annos[1].label)
    /\ Len(drawn) = 3

C7_Registry ==
    /\ Len(Annos) = Cardinality({i \in 1..Len(history) : history[i]})
    /\ IsSome(handle) => /\ Unwrap(handle) + 1 = Len(Annos)
                         /\ history[Len(history)]

C7_Step ==
    /\ (DrawSeriesCalled /\ history'[Len(history')]) =>
          /\ Unwrap(chart').series_anno = Append(Annos, SeriesAnno_new)
          /\ result' = Ok(<<"anno", Len(Annos)>>)
          /\ handle' = Some(Len(Annos))
    /\ (DrawSeriesCalled /\ ~history'[Len(history')]) =>
          Unwrap(chart').series_anno = Annos
    /\ (DrawSeriesCalled /\ Unwrap(call').series = <<>>) =>
          /\ history'[Len(history')]
          /\ drawn' = drawn
          /\ Len(Unwrap(chart').series_anno) = Len(Annos) + 1
    /\ ~DrawSeriesCalled =>
          /\ Len(Unwrap(chart').series_anno) = Len(Annos)
          /\ \A i \in 1..Len(Annos) :
                i # Unwrap(handle) + 1 => Unwrap(chart').series_anno[i] = Annos[i]

(***************************************************************************)
(* C7: the series annotations hold one entry per draw_series call that     *)
(* returned Ok; a successful call appends one entry with no label and no   *)
(* legend constructor behind the entries already there and returns the     *)
(* handle of that entry, a failed call leaves the entries alone, a call    *)
(* with an empty series succeeds, draws nothing and appends one entry, and *)
(* label and legend change no entry but the one of the handle, which is    *)
(* the entry of the last call.                                             *)
(***************************************************************************)
C7_RegistryOrder == [](pc = "built" => C7_Registry) /\ [][C7_Step]_vars

\* Two entries, the first labelled, the second made by an empty series.
C7_Witness ==
    /\ history = <<TRUE, TRUE>>
    /\ Unwrap(call).series = <<>>
    /\ Len(Annos) = 2
    /\ Annos[1].label = Some("sin") /\ IsSome(Annos[1].draw_func)
    /\ Annos[2] = SeriesAnno_new
    /\ handle = Some(1)

(***************************************************************************)
(* Vocabulary of the claims on draw_mesh.                                  *)
(***************************************************************************)
Meshed == pc = "meshed"

In == Unwrap(mesh_in)

OpsOf(kinds) == {i \in 1..Len(mesh_ops) : mesh_ops[i].kind \in kinds}

AreaNames == {<<"x", 0>>, <<"x", 1>>, <<"y", 0>>, <<"y", 1>>}

\* The label area slot, the orientation, the labels and the offset that
\* draw_mesh passes for a label area.
AreaOf(name) ==
    IF name[1] = "x" THEN Ctx.x_label_area[name[2] + 1]
    ELSE Ctx.y_label_area[name[2] + 1]

OriOf(name) ==
    IF name[1] = "x" THEN x_orientation(name[2]) ELSE y_orientation(name[2])

LabelsOf(name) == IF name[1] = "x" THEN mesh_labels[1] ELSE mesh_labels[2]

OffsetOf(name) == IF name[1] = "x" THEN In.x_label_offset ELSE In.y_label_offset

\* The plotting area's pixel bounds on the axis of a label area.
PlotBounds(name) ==
    IF name[1] = "x" THEN <<Plot.x0, Plot.x1>> ELSE <<Plot.y0, Plot.y1>>

\* The same call on a backend that refuses nothing.
RunUnfailed == draw_mesh_run(Ctx, [In EXCEPT !.fail_at = 0]).b

\* A text whose measuring fails was drawn.
UnmeasuredTextDrawn ==
    \E i \in OpsOf({"label", "axis_desc"}) : Unwrap(mesh_ops[i].text).err

(***************************************************************************)
(* C8 as stated: a failed draw or a failed text measurement makes          *)
(* draw_mesh return an error, and nothing is drawn with a substituted text *)
(* size.                                                                   *)
(***************************************************************************)
C8_NoBackendErrorSwallowed ==
    Meshed =>
        /\ (In.fail_at \in 1..RunUnfailed.n) =>
              result = Err(<<"backend", In.fail_at, RunUnfailed.ops[In.fail_at].kind>>)
        /\ ~UnmeasuredTextDrawn

(***************************************************************************)
(* What does hold of the errors of draw_mesh: when the backend refuses a   *)
(* draw (a mesh line, an axis line, a label, a knob or the axis            *)
(* description), draw_mesh returns the error of that draw and has drawn    *)
(* exactly what it draws before it on a backend that refuses nothing;      *)
(* otherwise it draws all of it, and a text the font cannot measure is     *)
(* drawn as a text of size (0, 0).                                         *)
(***************************************************************************)
DrawErrorsPropagate ==
    Meshed =>
        LET unfailed == RunUnfailed
            refused == In.fail_at \in 1..unfailed.n
        IN /\ refused =>
                 /\ result = Err(<<"backend", In.fail_at, unfailed.ops[In.fail_at].kind>>)
                 /\ mesh_ops = SubSeq(unfailed.ops, 1, In.fail_at - 1)
           /\ ~refused =>
                 /\ mesh_ops = unfailed.ops
                 /\ result.ok \/ result.val[1] = "panic"
           /\ \A i \in OpsOf({"label", "knob", "axis_desc"}) :
                 (IsSome(mesh_ops[i].text) /\ Unwrap(mesh_ops[i].text).err) =>
                     mesh_ops[i].size = <<0, 0>>

(***************************************************************************)
(* C9: every label and every knob drawn in a label area belongs to a tick  *)
(* whose pixel position lies within the plotting area's pixel range on the *)
(* area's axis, bounds included; and a tick exactly on a bound is not      *)
(* clipped: when the call succeeds its label is drawn if the overflow test *)
(* lets it.                                                                *)
(***************************************************************************)
C9_LabelClipping ==
    Meshed =>
        /\ \A i \in OpsOf({"label", "knob"}) :
              LET op == mesh_ops[i]
                  bd == PlotBounds(op.area)
              IN bd[1] <= Unwrap(op.tick) /\ Unwrap(op.tick) <= bd[2]
        /\ \A name \in AreaNames :
           \A k \in 1..Len(LabelsOf(name)) :
              LET tick == LabelsOf(name)[k][1]
                  o == OriOf(name)
                  base == get_base_pixel(Plot)
                  d == dim_in_pixel(Unwrap(AreaOf(name)))
                  size == unwrap_or(box_size(LabelsOf(name)[k][2], "None"), <<0, 0>>)
                  c == label_anchor(o, tick, size, d[1], d[2], base,
                                    right_most(LabelsOf(name), o))
              IN (IsSome(AreaOf(name)) /\ tick \in {PlotBounds(name)[1], PlotBounds(name)[2]}) =>
                    /\ ~clipped(IF o[1] = 0 THEN tick - base[1] ELSE tick - base[2],
                                axis_range(Ctx, o))
                    /\ (result.ok /\ should_draw(o, c, size, OffsetOf(name), d[1], d[2])) =>
                          \E i \in OpsOf({"label"}) :
                              mesh_ops[i].area = name /\ mesh_ops[i].tick = Some(tick)

\* Labelled ticks one pixel outside the range, below on X and above on Y,
\* with all four label areas and their axes drawn: no label, no knob.
C9_Witness ==
    /\ Meshed /\ result.ok
    /\ \A name \in AreaNames : IsSome(AreaOf(name))
    /\ mesh_labels = <<<<<<Plot.x0 - 1, TextOk>>>>, <<<<Plot.y1 + 1, TextOk>>>>>>
    /\ In.x_axis /\ In.y_axis
    /\ Cardinality(OpsOf({"axis_line"})) = 4
    /\ OpsOf({"label", "knob"}) = {}

(***************************************************************************)
(* C10: every label drawn lies, with the offset applied, within its label  *)
(* area along the band on both sides: 0 <= cx + offset - w/2 and           *)
(* cx + offset + w/2 <= tw in the top and bottom areas, and                *)
(* 0 <= cy + offset - h/2 and cy + offset + h/2 <= th in the left and      *)
(* right ones.                                                             *)
(***************************************************************************)
C10_LabelWithinAreaOnBothSides ==
    Meshed =>
        \A i \in OpsOf({"label"}) :
            LET op == mesh_ops[i]
                d == dim_in_pixel(Unwrap(AreaOf(op.area)))
                off == OffsetOf(op.area)
            IN IF op.area[1] = "x"
               THEN /\ 0 <= op.anchor[1] + off - op.size[1] \div 2
                    /\ op.anchor[1] + off + op.size[1] \div 2 <= d[1]
               ELSE /\ 0 <= op.anchor[2] + off - op.size[2] \div 2
                    /\ op.anchor[2] + off + op.size[2] \div 2 <= d[2]

(***************************************************************************)
(* Vocabulary of C11: the operations drawn in the label areas, and the     *)
(* panic of an orientation that is none of the four.                       *)
(***************************************************************************)
AreaKinds == {"axis_line", "label", "knob", "axis_desc"}

InvalidOrientationPanic ==
    ~result.ok /\ result.val = <<"panic", "Bug: Invlid orientation specification">>

\* Every operation drawn in a label area carries the orientation ori(name).
OrientationsAre(ori(_)) ==
    \A i \in OpsOf(AreaKinds) : mesh_ops[i].ori = ori(mesh_ops[i].area)

\* The orientations as the claim has them.
ClaimedOrientation(name) ==
    CASE name = <<"x", 1>> -> <<0, -1>>
      [] name = <<"x", 0>> -> <<0, 1>>
      [] name = <<"y", 0>> -> <<-1, 0>>
      [] name = <<"y", 1>> -> <<1, 0>>

\* The orientations with (0, -1) for the top slot and (0, 1) for the bottom one.
PixelOrientation(name) ==
    CASE name = <<"x", 0>> -> <<0, -1>>
      [] name = <<"x", 1>> -> <<0, 1>>
      [] name = <<"y", 0>> -> <<-1, 0>>
      [] name = <<"y", 1>> -> <<1, 0>>

\* The label area lies on the side of the plotting area its orientation
\* points to, in pixel coordinates (y grows downwards).
OnSideOf(name, o) ==
    LET a == Unwrap(AreaOf(name))
    IN CASE o = <<0, -1>> -> a.y1 = Plot.y0
         [] o = <<0, 1>> -> a.y0 = Plot.y1
         [] o = <<-1, 0>> -> a.x1 = Plot.x0
         [] o = <<1, 0>> -> a.x0 = Plot.x1
         [] OTHER -> FALSE

(***************************************************************************)
(* C11 as stated: the bottom X label area (slot 1) is rendered with        *)
(* orientation (0,-1), the top one (slot 0) with (0,1), the left Y label   *)
(* area (slot 0) with (-1,0) and the right one (slot 1) with (1,0), and    *)
(* the invalid-orientation panic never happens.                            *)
(***************************************************************************)
C11_OrientationsAsStated ==
    Meshed => OrientationsAre(ClaimedOrientation) /\ ~InvalidOrientationPanic

(***************************************************************************)
(* C11 amended: the top X label area (slot 0) is rendered with orientation *)
(* (0,-1), the bottom one (slot 1) with (0,1), the left Y label area       *)
(* (slot 0) with (-1,0) and the right one (slot 1) with (1,0); only these  *)
(* four are passed, and the invalid-orientation panic never happens.       *)
(***************************************************************************)
C11_OrientationsInPixelDirection ==
    Meshed =>
        /\ OrientationsAre(PixelOrientation)
        /\ \A i \in OpsOf(AreaKinds) : ValidOrientation(mesh_ops[i].ori)
        /\ ~InvalidOrientationPanic

\* With the split of the working area, the vector points from the plotting
\* area to the label area in pixel coordinates, where y grows downwards.
OrientationPointsToArea ==
    Meshed => \A i \in OpsOf(AreaKinds) : OnSideOf(mesh_ops[i].area, mesh_ops[i].ori)

\* The axis lines of all four label areas were drawn, and a label in the
\* top and in the bottom one.
C11_Witness ==
    /\ Meshed /\ result.ok
    /\ \A name \in AreaNames :
          \E i \in OpsOf({"axis_line"}) : mesh_ops[i].area = name
    /\ \A idx \in {0, 1} :
          \E i \in OpsOf({"label"}) : mesh_ops[i].area = <<"x", idx>>

(***************************************************************************)
(* Vocabulary of C12: the axis description of a label area.                *)
(***************************************************************************)
DescOf(name) == IF name[1] = "x" THEN In.x_desc ELSE In.y_desc

DescOps(name) == {i \in OpsOf({"axis_desc"}) : mesh_ops[i].area = name}

\* The coordinate of a drawn description along its band.
AlongBand(op) == IF op.area[1] = "x" THEN op.pts[1][1] ELSE op.pts[1][2]

\* The band's length minus the description's, along the band.
Slack(op) ==
    LET d == dim_in_pixel(Unwrap(AreaOf(op.area)))
    IN IF op.area[1] = "x" THEN d[1] - op.size[1] ELSE d[2] - op.size[2]

\* Signed division by two, rounding towards zero.
SignedHalf(v) == IF v >= 0 THEN v \div 2 ELSE 0 - ((0 - v) \div 2)

SubtractOverflowPanic ==
    ~result.ok /\ result.val = <<"panic", "attempt to subtract with overflow">>

(***************************************************************************)
(* C12: the axis description of every present label area, larger than the  *)
(* band or not, is drawn once, at the signed (tw - w)/2 along a top or     *)
(* bottom band and (th - h)/2 along a left or right band, and the          *)
(* subtraction neither wraps nor aborts.                                   *)
(***************************************************************************)
C12_DescriptionCentred ==
    Meshed =>
        /\ ~SubtractOverflowPanic
        /\ \A i \in OpsOf({"axis_desc"}) :
              AlongBand(mesh_ops[i]) = SignedHalf(Slack(mesh_ops[i]))
        /\ result.ok =>
              \A name \in AreaNames :
                  (IsSome(AreaOf(name)) /\ IsSome(DescOf(name))) =>
                      Cardinality(DescOps(name)) = 1

\* What does hold: a description no larger than its band is centred along
\* it, and a successful call has drawn the description of every present
\* label area once.
DescCentredWhenItFits ==
    Meshed =>
        /\ \A i \in OpsOf({"axis_desc"}) :
              LET op == mesh_ops[i]
                  d == dim_in_pixel(Unwrap(AreaOf(op.area)))
              IN (op.size[1] <= d[1] /\ op.size[2] <= d[2]) =>
                    AlongBand(op) = Slack(op) \div 2
        /\ result.ok =>
              \A name \in AreaNames :
                  (IsSome(AreaOf(name)) /\ IsSome(DescOf(name))) =>
                      Cardinality(DescOps(name)) = 1

(***************************************************************************)
(* Vocabulary of C13.                                                      *)
(***************************************************************************)
\* The mesh lines of an axis, in order.
LinesOf(axis) == SelectSeq(In.lines, LAMBDA l : l.axis = axis)

\* The label entries of the mesh lines of an axis for which the formatter
\* returns a string, in order.
FormattedOf(axis) ==
    LET ls == SelectSeq(LinesOf(axis), LAMBDA l : IsSome(l.label))
    IN [k \in 1..Len(ls) |-> <<ls[k].pos, Unwrap(ls[k].label)>>]

\* The positions of the mesh lines drawn of a kind, in order.
DrawnLines(kind) ==
    LET ops == SelectSeq(mesh_ops, LAMBDA op : op.kind = kind)
    IN [k \in 1..Len(ops) |-> Unwrap(ops[k].tick)]

PositionsOf(axis) == [k \in 1..Len(LinesOf(axis)) |-> LinesOf(axis)[k].pos]

\* What is drawn in the label areas.
AreaOps(ops) == SelectSeq(ops, LAMBDA op : op.kind \in AreaKinds)

\* The same call with both toggles off.
RunWithoutMesh == draw_mesh_run(Ctx, [In EXCEPT !.x_mesh = FALSE, !.y_mesh = FALSE])

(***************************************************************************)
(* C13: in a call of draw_mesh in which the backend refuses no draw, the   *)
(* label lists collected are those of the ticks the formatter gives a      *)
(* string for, whatever the toggles say; what is drawn in the label areas  *)
(* is what is drawn there with both toggles off; the mesh lines of an axis *)
(* are all drawn if its toggle is on and none is drawn if it is off; a     *)
(* tick without a string has its line and no label entry.                  *)
(***************************************************************************)
C13_MeshTogglesOnlyGridLines ==
    (Meshed /\ In.fail_at = 0) =>
        LET off == RunWithoutMesh
        IN /\ mesh_labels = <<FormattedOf("X"), FormattedOf("Y")>>
           /\ mesh_labels = <<off.x_labels, off.y_labels>>
           /\ AreaOps(mesh_ops) = AreaOps(off.b.ops)
           /\ DrawnLines("x_mesh_line") = IF In.x_mesh THEN PositionsOf("X") ELSE <<>>
           /\ DrawnLines("y_mesh_line") = IF In.y_mesh THEN PositionsOf("Y") ELSE <<>>

\* The X mesh is on and the Y mesh off: the X line is drawn, the Y line is
\* not, and the labels of both are drawn in the label areas.
C13_Witness ==
    /\ Meshed /\ result.ok /\ In.fail_at = 0
    /\ In.x_mesh /\ ~In.y_mesh
    /\ Len(LinesOf("X")) = 1 /\ Len(LinesOf("Y")) = 1
    /\ Len(DrawnLines("x_mesh_line")) = 1 /\ DrawnLines("y_mesh_line") = <<>>
    /\ Len(mesh_labels[1]) = 1 /\ Len(mesh_labels[2]) = 1
    /\ \E i, j \in OpsOf({"label"}) :
          mesh_ops[i].area[1] = "x" /\ mesh_ops[j].area[1] = "y"

(***************************************************************************)
(* Vocabulary of C14.                                                      *)
(***************************************************************************)
AxisOn(name) == IF name[1] = "x" THEN In.x_axis ELSE In.y_axis

Abs(v) == IF v >= 0 THEN v ELSE 0 - v

\* The call ended when the backend refused the knob that follows the last
\* operation drawn.
KnobRefusedLast ==
    ~result.ok /\ result.val = <<"backend", Len(mesh_ops) + 1, "knob">>

\* The knob op is a segment of 5 pixels across the band at the tick, from
\* the edge the axis line `line` of its area runs along.
KnobGeometry(op, line) ==
    LET a == op.pts[1]
        b == op.pts[2]
        base == get_base_pixel(Plot)
    IN /\ Len(op.pts) = 2
       /\ IF op.area[1] = "x"
          THEN /\ a[1] = Unwrap(op.tick) - base[1] /\ b[1] = a[1]
               /\ Abs(b[2] - a[2]) = 5
               /\ line.pts[1][2] = line.pts[2][2]
               /\ line.pts[1][2] \in {a[2], b[2]}
          ELSE /\ a[2] = Unwrap(op.tick) - base[2] /\ b[2] = a[2]
               /\ Abs(b[1] - a[1]) = 5
               /\ line.pts[1][1] = line.pts[2][1]
               /\ line.pts[1][1] \in {a[1], b[1]}

(***************************************************************************)
(* C14: a knob is drawn for a tick if and only if the tick's label is      *)
(* drawn and the axis toggle of the area is on: every knob comes right     *)
(* after the label of its tick in its area, and every label of an area     *)
(* whose axis is on is followed by its knob, unless the backend refused    *)
(* that knob and ended the call; with the toggle off neither the axis line *)
(* nor a knob is drawn in the area.  Every knob is a two-point segment of  *)
(* 5 pixels, perpendicular to the axis line, at the tick's pixel position, *)
(* with one end on the band edge the axis line is drawn along.             *)
(***************************************************************************)
C14_KnobRule ==
    Meshed =>
        /\ \A i \in OpsOf({"knob"}) :
              /\ AxisOn(mesh_ops[i].area)
              /\ i > 1 /\ mesh_ops[i - 1].kind = "label"
              /\ mesh_ops[i - 1].area = mesh_ops[i].area
              /\ mesh_ops[i - 1].tick = mesh_ops[i].tick
              /\ \E j \in OpsOf({"axis_line"}) :
                    /\ j < i /\ mesh_ops[j].area = mesh_ops[i].area
                    /\ KnobGeometry(mesh_ops[i], mesh_ops[j])
        /\ \A i \in OpsOf({"label"}) :
              AxisOn(mesh_ops[i].area) =>
                  IF i < Len(mesh_ops)
                  THEN /\ mesh_ops[i + 1].kind = "knob"
                       /\ mesh_ops[i + 1].area = mesh_ops[i].area
                       /\ mesh_ops[i + 1].tick = mesh_ops[i].tick
                  ELSE KnobRefusedLast
        /\ \A i \in OpsOf({"axis_line", "knob"}) : AxisOn(mesh_ops[i].area)
        /\ (result.ok /\ In.fail_at = 0) =>
              \A name \in AreaNames :
                  (IsSome(AreaOf(name)) /\ AxisOn(name)) =>
                      \E j \in OpsOf({"axis_line"}) : mesh_ops[j].area = name

\* The X axis is on and the Y axis off: a label with its knob in an X label
\* area, a label without a knob and without an axis line in a Y label area.
C14_Witness ==
    /\ Meshed /\ result.ok
    /\ In.x_axis /\ ~In.y_axis
    /\ \E i \in OpsOf({"knob"}) : mesh_ops[i].area[1] = "x"
    /\ \E i \in OpsOf({"label"}) : mesh_ops[i].area[1] = "y"
    /\ \A i \in OpsOf({"axis_line", "knob"}) : mesh_ops[i].area[1] = "x"

====
